---- MODULE Spec2Model ----
(***************************************************************************)
(* PmacTrajectory (ophyd_async/epics/pmac/_pmacTrajectory.py): prepare,    *)
(* kickoff and complete of a PMAC trajectory scan, with the controller     *)
(* fields, the motors and the callers as the environment.                  *)
(*                                                                         *)
(* Units.  Times are integers in milliseconds, positions in integer motor  *)
(* units, velocities in motor units per millisecond.  The inputs are       *)
(* chosen so that every division of the source is exact.                   *)
(***************************************************************************)
EXTENDS Integers, Sequences, FiniteSets, TLC

\* ------------------------------------------------------------------ bounds
\* prepare() calls made in one behaviour
MaxPrepares == 1
\* kickoff() calls made in one behaviour
MaxKickoffs == 1
\* complete() calls made in one behaviour
MaxCompletes == 2
\* scan-percent updates the controller publishes in one behaviour
MaxSamples == 2
\* I/O failures (a field write, a motor move, the execute command) injected
MaxFaults == 1
\* prepare() calls started while another prepare is in flight
MaxOverlapping == 1
\* prepare() calls made again after the earlier ones have finished
MaxRepeats == 1

\* --------------------------------------------------------- program constants
\* TICK_S = 0.000001 s: controller ticks in one model time unit (1 ms)
TicksPerMs == 1000
\* the "+ 10" seconds of kickoff's timeout, in milliseconds
KickoffMarginMs == 10000

\* an attribute or field that may not have been assigned yet: <<>> while it
\* has not, <<v>> once it holds v
Unset == <<>>
Set(v) == <<v>>
IsSet(x) == x # <<>>
Val(x) == x[1]
NoValue == "unset"
DURATION == "DURATION"
Motors == {"mA", "mB"}

\* ------------------------------------------------------------------ helpers
Abs(x) == IF x < 0 THEN -x ELSE x
Max(a, b) == IF a >= b THEN a ELSE b

RECURSIVE SumSeq(_)
SumSeq(s) == IF s = <<>> THEN 0 ELSE Head(s) + SumSeq(Tail(s))

\* d[k] = v on a Python dict d held as a function
DictSet(d, k, v) == [x \in (DOMAIN d) \cup {k} |-> IF x = k THEN v ELSE d[x]]

Last(s) == s[Len(s)]

\* ------------------------------------------------- get_cs_info's string work
\* str.split(sep) for a one-character separator, on a tuple of characters
RECURSIVE SplitFrom(_, _, _)
SplitFrom(s, sep, cur) ==
    IF s = <<>> THEN <<cur>>
    ELSE IF Head(s) = sep THEN <<cur>> \o SplitFrom(Tail(s), sep, <<>>)
    ELSE SplitFrom(Tail(s), sep, Append(cur, Head(s)))

Split(s, sep) == SplitFrom(s, sep, <<>>)

\* str.rstrip(chars) for one character
RECURSIVE RStrip(_, _)
RStrip(s, c) ==
    IF s # <<>> /\ Last(s) = c THEN RStrip(SubSeq(s, 1, Len(s) - 1), c) ELSE s

RECURSIVE LStrip(_, _)
LStrip(s, c) == IF s # <<>> /\ Head(s) = c THEN LStrip(Tail(s), c) ELSE s

\* str.strip(): blanks off both ends
Strip(s) == RStrip(LStrip(s, " "), " ")

\* "CS" in cs_port
ContainsCS(s) == \E i \in 1..(Len(s) - 1) : s[i] = "C" /\ s[i + 1] = "S"

DigitValue == [c \in {"0", "1", "2", "3", "4", "5", "6", "7", "8", "9"} |->
    CASE c = "0" -> 0 [] c = "1" -> 1 [] c = "2" -> 2 [] c = "3" -> 3
      [] c = "4" -> 4 [] c = "5" -> 5 [] c = "6" -> 6 [] c = "7" -> 7
      [] c = "8" -> 8 [] c = "9" -> 9]

IsDigits(s) == s # <<>> /\ \A i \in 1..Len(s) : s[i] \in DOMAIN DigitValue

RECURSIVE DigitsValue(_, _)
DigitsValue(s, acc) ==
    IF s = <<>> THEN acc ELSE DigitsValue(Tail(s), 10 * acc + DigitValue[Head(s)])

\* a parse that returns INDEX as it stands
ParseCsInfoMutant(output_link) ==
    LET parts == Split(output_link, "(") IN
    IF Len(parts) < 2 THEN [error |-> "IndexError"]
    ELSE
        LET split == Split(RStrip(parts[2], ")"), ",")
            cs_port == Strip(split[1])
        IN  IF ~ContainsCS(cs_port) THEN [error |-> "AssertionError: not in a CS"]
            ELSE IF Len(split) < 2 THEN [error |-> "IndexError"]
            ELSE IF ~IsDigits(Strip(split[2])) THEN [error |-> "ValueError"]
            ELSE [error |-> "none", cs_port |-> cs_port,
                  cs_index |-> DigitsValue(Strip(split[2]), 0)]

\* get_cs_info once motor.output_link has been read: the result, or the
\* exception the parsing raises
ParseCsInfo(output_link) ==
    LET parts == Split(output_link, "(") IN
    IF Len(parts) < 2 THEN [error |-> "IndexError"]
    ELSE
        LET split == Split(RStrip(parts[2], ")"), ",")
            cs_port == Strip(split[1])
        IN  IF ~ContainsCS(cs_port) THEN [error |-> "AssertionError: not in a CS"]
            ELSE IF Len(split) < 2 THEN [error |-> "IndexError"]
            ELSE IF ~IsDigits(Strip(split[2])) THEN [error |-> "ValueError"]
            ELSE [error |-> "none", cs_port |-> cs_port,
                  cs_index |-> DigitsValue(Strip(split[2]), 0) - 1]

\* ------------------------------------------------------ _ramp_up_velocity_pos
\* [disp, accl_time] of the ramp from velocity to end_velocity, for a
\* max_velocity other than 0 (every motor record of Rigs has one)
RampUpVelocityPosMutant(velocity, acceleration_time, max_velocity, end_velocity) ==
    LET delta_v == end_velocity - velocity
        accl_time == (acceleration_time * delta_v) \div max_velocity
        disp == ((velocity + end_velocity) * accl_time) \div 2
    IN  [disp |-> disp, accl_time |-> accl_time]

RampUpVelocityPos(velocity, acceleration_time, max_velocity, end_velocity) ==
    LET delta_v == Abs(end_velocity - velocity)
        accl_time == (acceleration_time * delta_v) \div max_velocity
        disp == ((velocity + end_velocity) * accl_time) \div 2
    IN  [disp |-> disp, accl_time |-> accl_time]

\* ------------------------------------------------------------------ requests
\* The chunk scanspec hands to prepare (lines 61-74): the scanned axes with
\* DURATION last, scan_size frames, and per frame the lower bound, upper
\* bound and midpoint of every axis and the frame's duration.
StepWidths == {4, -8}
ScanSizes == {1, 2}
TimesPerPosition == {2}
AxesChoices == {<<"mA", DURATION>>, <<"mA", "mB", DURATION>>}

LowerOf(w, i) == SumSeq(SubSeq(w, 1, i - 1))

Chunk(axes, n, w, tpp) ==
    [axes      |-> axes,
     size      |-> n,
     lower     |-> [m \in Motors |-> [i \in 1..n |-> LowerOf(w[m], i)]],
     upper     |-> [m \in Motors |-> [i \in 1..n |-> LowerOf(w[m], i) + w[m][i]]],
     midpoints |-> [m \in Motors |-> [i \in 1..n |-> LowerOf(w[m], i) + (w[m][i] \div 2)]],
     duration  |-> [i \in 1..n |-> tpp]]

InAxes(m, axes) == \E i \in 1..Len(axes) : axes[i] = m
MotorsIn(axes) == {m \in Motors : InAxes(m, axes)}

\* the widths of the frames of every motor; a motor that is not scanned gets
\* one fixed (unused) sequence
WidthsFor(axes, n) ==
    { f \in [Motors -> [1..n -> StepWidths]] :
        \A m \in Motors : ~InAxes(m, axes) => f[m] = [i \in 1..n |-> 4] }

Requests ==
    UNION { UNION { { Chunk(axes, n, w, tpp) : w \in WidthsFor(axes, n),
                                               tpp \in TimesPerPosition } :
                    n \in ScanSizes } :
            axes \in AxesChoices }

\* the requests of the lifecycle specifications: every motor takes the same
\* steps, the first of width 4; one frame (one motor only), two frames of one
\* velocity (4 then 4) or two frames that turn round (4 then -8)
LifecycleRequests ==
    { c \in Requests :
        /\ \A m \in Motors : c.upper[m][1] - c.lower[m][1] = 4
        /\ \A m \in MotorsIn(c.axes), n \in MotorsIn(c.axes) :
              \A i \in 1..c.size :
                  c.upper[m][i] - c.lower[m][i] = c.upper[n][i] - c.lower[n][i]
        /\ Len(c.axes) > 2 => c.size = 2 }

\* ------------------------------------------------------------------- motors
\* "@asyn(PORT,INDEX)" as a tuple of characters
Link(port, index) == <<"@", "a", "s", "y", "n", "(">> \o port \o <<",">> \o index \o <<")">>

PortCS1 == <<"C", "S", "1">>
PortCS2 == <<"B", "R", "I", "C", "K", "1", "C", "S", "2">>
PortBrick == <<"B", "R", "I", "C", "K", "1">>

\* [output_link, max_velocity (units/ms), acceleration_time (ms)] of a motor
MotorRecord(link, maxv, acc) ==
    [output_link |-> link, max_velocity |-> maxv, acceleration_time |-> acc]

\* The installations a behaviour runs on: the motor records never change
Rigs ==
    { [mA |-> MotorRecord(Link(PortCS1, <<"1">>), 4, 4),
       mB |-> MotorRecord(Link(PortCS1, <<" ", "2">>), 8, 4)],
      [mA |-> MotorRecord(Link(PortCS1, <<"1">>), 4, 4),
       mB |-> MotorRecord(Link(PortCS2, <<"3">>), 8, 4)],
      [mA |-> MotorRecord(Link(PortBrick, <<"3">>), 4, 4),
       mB |-> MotorRecord(Link(PortCS1, <<"2">>), 8, 4)],
      [mA |-> MotorRecord(Link(PortCS2, <<"1">>), 4, 0),
       mB |-> MotorRecord(Link(PortCS2, <<"3">>), 8, -4)] }

\* the slots of the controller's per-axis fields (use_axis, positions, velocities)
Slots == 1..3

\* --------------------------------------------------------------------- state
Tasks == {1, 2}
Percents == {0, 40, 100}

VARIABLES
    motor,        \* [Motors -> motor record]
    motor_pos,    \* [Motors -> position of the last completed move, or NoValue]
    scantime,     \* self.scantime, NoValue while the attribute does not exist
    initial_pos,  \* self.initial_pos, NoValue while the attribute does not exist
    fly_start,    \* whether self._fly_start has been assigned
    status,       \* self.status: the execute command, never awaited
    task,         \* [Tasks -> the frame of a prepare() coroutine]
    pending,      \* field writes issued and not completed, in issue order
    pmac,         \* the controller's fields as the controller holds them
    scan_percent, \* the controller's scan-percent field
    observer,     \* the running complete(): its observe_value queue
    emitted,      \* the updates the current or last complete() has yielded
    lifecycle,    \* Idle, Prepared, Executing, Completed or Failed
    last,         \* what the last finished call returned or raised
    hist,         \* counters and records of the behaviour so far
    log           \* the writes and moves of the prepare under way, as issued

vars == <<motor, motor_pos, scantime, initial_pos, fly_start, status, task,
          pending, pmac, scan_percent, observer, emitted, lifecycle, last,
          hist, log>>

IdleTask == [pc |-> "idle"]

NoObserver == [attached |-> FALSE, queue |-> <<>>, seen |-> <<>>]

InitPmac ==
    [profile_cs_name  |-> Unset,
     points_to_build  |-> Unset,
     use_axis         |-> [k \in Slots |-> Set(FALSE)],
     positions        |-> [k \in Slots |-> Unset],
     velocities       |-> [k \in Slots |-> Unset],
     time_array       |-> Unset,
     profile_calc_vel |-> Unset,
     build_profile    |-> Unset,
     execute_profile  |-> Unset]

InitHist ==
    [prepares |-> 0, kickoffs |-> 0, completes |-> 0, samples |-> 0, faults |-> 0,
     failed_writes |-> {}]

Init ==
    /\ motor \in Rigs
    /\ motor_pos = [m \in Motors |-> Unset]
    /\ scantime = Unset
    /\ initial_pos = Unset
    /\ fly_start = FALSE
    /\ status = [state |-> "none", timeout |-> 0]
    /\ task = [t \in Tasks |-> IdleTask]
    /\ pending = <<>>
    /\ pmac = InitPmac
    /\ scan_percent = 0
    /\ observer = NoObserver
    /\ emitted = <<>>
    /\ lifecycle = "Idle"
    /\ last = [call |-> "none", id |-> 0, result |-> "none"]
    /\ hist = InitHist
    /\ log = <<>>

\* ------------------------------------------------------------------- prepare
EmptyDict == <<>>

\* one un-awaited signal.set(value): slot 0 for a field that is no vector
Write(field, slot, value, call) ==
    [field |-> field, slot |-> slot, value |-> value, call |-> call]

\* the entries of log
WriteEvent(w) ==
    [kind |-> "write", field |-> w.field, slot |-> w.slot, value |-> w.value,
     call |-> w.call]
WriteEvents(ws) == [j \in 1..Len(ws) |-> WriteEvent(ws[j])]
MoveEvent(kind, axis, target, call) ==
    [kind |-> kind, axis |-> axis, target |-> target, call |-> call]

\* lines 76-80 and the entry into the loop of line 81: the frame at the
\* first await of get_cs_info.  before and own_pos are bookkeeping: the
\* attributes as the call found them, and what the call itself has put
\* into self.initial_pos
NewFrame(call, chunk) ==
    [pc |-> "resolve", call |-> call, chunk |-> chunk, i |-> 1,
     cs_ports |-> {}, cs_port |-> NoValue, cs_axes |-> EmptyDict,
     positions |-> EmptyDict, velocities |-> EmptyDict, time_array |-> <<>>,
     run_up_time |-> 0, final_time |-> 0, run_up_disp |-> 0, run_up_t |-> 0,
     target |-> NoValue,
     before |-> [scantime |-> scantime, initial_pos |-> initial_pos],
     own_pos |-> EmptyDict]

\* lines 94-103: velocities and positions per cs index, tick counts for DURATION
RECURSIVE VelocityLoop(_, _)
VelocityLoop(f, j) ==
    IF j > Len(f.chunk.axes) THEN f
    ELSE
        LET axis == f.chunk.axes[j]
            c == f.chunk
        IN  IF axis # DURATION
            THEN LET k == f.cs_axes[axis] IN
                 VelocityLoop(
                     [f EXCEPT
                        !.velocities = DictSet(@, k, @[k] \o
                            [i \in 1..c.size |->
                                (c.upper[axis][i] - c.lower[axis][i]) \div c.duration[i]]),
                        !.positions = DictSet(@, k, @[k] \o
                            [i \in 1..c.size |-> c.midpoints[axis][i]])],
                     j + 1)
            ELSE VelocityLoop(
                     [f EXCEPT !.time_array = @ \o
                        [i \in 1..c.size |-> c.duration[i] * TicksPerMs]],
                     j + 1)

\* lines 139-147: the writes of the upload loop, in the order they are issued
RECURSIVE UploadLoop(_, _)
UploadLoop(f, j) ==
    IF j > Len(f.chunk.axes) THEN <<>>
    ELSE
        LET axis == f.chunk.axes[j] IN
        (IF axis # DURATION
         THEN LET k == f.cs_axes[axis] IN
              << Write("profile_cs_name", 0, f.cs_port, f.call),
                 Write("points_to_build", 0, f.chunk.size + 1, f.call),
                 Write("use_axis", k + 1, TRUE, f.call),
                 Write("positions", k + 1, f.positions[k], f.call),
                 Write("velocities", k + 1, f.velocities[k], f.call) >>
         ELSE << Write("time_array", 0, f.time_array, f.call) >>)
        \o UploadLoop(f, j + 1)

\* lines 155-157
FinalWrites(f) ==
    << Write("profile_calc_vel", 0, FALSE, f.call),
       Write("build_profile", 0, TRUE, f.call) >>

\* no call is in flight and the controller has answered the writes of the
\* earlier calls: what a caller that awaits each status calls from
Quiet ==
    /\ \A t \in Tasks : task[t].pc = "idle"
    /\ ~observer.attached
    /\ pending = <<>>

FreeTask(t) ==
    /\ task[t].pc = "idle"
    /\ \A u \in Tasks : task[u].pc = "idle" => t <= u

\* prepare(value) is called: the coroutine runs to its first await
StartPrepare(t, chunk) ==
    /\ FreeTask(t)
    /\ task' = [task EXCEPT ![t] = NewFrame(hist.prepares + 1, chunk)]
    /\ hist' = [hist EXCEPT !.prepares = @ + 1]
    /\ log' = IF \A u \in Tasks : task[u].pc = "idle" THEN <<>> ELSE log
    /\ UNCHANGED <<motor, motor_pos, scantime, initial_pos, fly_start, status,
                   pending, pmac, scan_percent, observer, emitted, lifecycle, last>>

\* a caller that awaits every status before its next call
PrepareCall ==
    \E t \in Tasks, chunk \in LifecycleRequests :
        /\ Quiet
        /\ hist.prepares < MaxPrepares
        /\ StartPrepare(t, chunk)

\* the caller prepares again once the earlier prepare has finished
PrepareAgain ==
    \E t \in Tasks, chunk \in LifecycleRequests :
        /\ Quiet
        /\ hist.prepares >= MaxPrepares
        /\ hist.prepares < MaxPrepares + MaxRepeats
        /\ StartPrepare(t, chunk)

\* a second caller that does not wait for the prepare in flight
PrepareCallConcurrent ==
    \E t \in Tasks, chunk \in LifecycleRequests :
        /\ ~observer.attached
        /\ \E u \in Tasks : task[u].pc # "idle"
        /\ hist.prepares < MaxPrepares + MaxOverlapping
        /\ StartPrepare(t, chunk)

\* an exception leaves prepare: the status holds it, the frame is gone
PrepareRaise(t, err) ==
    /\ task' = [task EXCEPT ![t] = IdleTask]
    /\ lifecycle' = "Failed"
    /\ last' = [call |-> "prepare", id |-> task[t].call, result |-> err,
                axes |-> task[t].chunk.axes, chunk |-> task[t].chunk,
                before |-> task[t].before]

\* the assert of line 88
OnePortMutant(cs_ports) == Cardinality(cs_ports) >= 1
OnePort(cs_ports) == Cardinality(cs_ports) = 1

\* line 83 returns for axis i; lines 84-87, then the next await: line 83 for
\* the next motor, or lines 88-108 and line 111 for the first motor
ResolveStep(t) ==
    LET f == task[t]
        axis == f.chunk.axes[f.i]
        r == ParseCsInfo(motor[axis].output_link)
    IN  /\ f.pc = "resolve"
        /\ UNCHANGED <<motor, motor_pos, fly_start, status, pending, pmac,
                       scan_percent, observer, emitted, hist, log>>
        /\ IF r.error # "none"
           THEN PrepareRaise(t, r.error) /\ UNCHANGED <<scantime, initial_pos>>
           ELSE
             LET f1 == [f EXCEPT
                          !.positions = DictSet(@, r.cs_index, <<>>),
                          !.velocities = DictSet(@, r.cs_index, <<>>),
                          !.cs_ports = @ \cup {r.cs_port},
                          !.cs_axes = DictSet(@, axis, r.cs_index)]
             IN  IF f.chunk.axes[f.i + 1] # DURATION
                 THEN /\ task' = [task EXCEPT ![t] = [f1 EXCEPT !.i = @ + 1]]
                      /\ UNCHANGED <<scantime, initial_pos, lifecycle, last>>
                 ELSE IF ~OnePort(f1.cs_ports)
                 THEN /\ PrepareRaise(t, "AssertionError: Motors in more than one CS")
                      /\ UNCHANGED <<scantime, initial_pos>>
                 ELSE
                   LET f2 == VelocityLoop(
                                [f1 EXCEPT !.cs_port = CHOOSE q \in f1.cs_ports : TRUE], 1)
                   IN  /\ scantime' = Set(SumSeq(f.chunk.duration))
                       /\ initial_pos' = Set(EmptyDict)
                       /\ task' = [task EXCEPT ![t] =
                              [f2 EXCEPT !.pc = "ramp_up", !.i = 1,
                                         !.run_up_time = 0, !.final_time = 0]]
                       /\ UNCHANGED <<lifecycle, last>>

\* a move to the first midpoint itself, the run-up left out
IssueMoveMutant(t, f, i, ip, lg) ==
    LET axis == f.chunk.axes[i]
        k == f.cs_axes[axis]
    IN  /\ task' = [task EXCEPT ![t] =
               [f EXCEPT !.pc = "move", !.i = i, !.target = f.positions[k][1]]]
        /\ log' = Append(lg, MoveEvent("move_issued", axis, f.positions[k][1], f.call))
        /\ UNCHANGED <<lifecycle, last>>

\* line 152 is reached for axis i with self.initial_pos = ip, after the I/O
\* lg: the move is issued and prepare awaits it
IssueMove(t, f, i, ip, lg) ==
    LET axis == f.chunk.axes[i]
        k == f.cs_axes[axis]
    IN  IF k \in DOMAIN Val(ip)
        THEN /\ task' = [task EXCEPT ![t] =
                    [f EXCEPT !.pc = "move", !.i = i, !.target = Val(ip)[k]]]
             /\ log' = Append(lg, MoveEvent("move_issued", axis, Val(ip)[k], f.call))
             /\ UNCHANGED <<lifecycle, last>>
        ELSE PrepareRaise(t, "KeyError") /\ log' = lg

\* lines 135-147, then line 152 for the first motor
AfterRampMutant(t, f, ip) ==
    LET f1 == [f EXCEPT !.time_array =
                  Append([@ EXCEPT ![1] = @ + f.run_up_time * TicksPerMs],
                         f.final_time * TicksPerMs)]
        writes == UploadLoop(f1, 1) \o FinalWrites(f1)
    IN  /\ scantime' = Set(Val(scantime) + f.run_up_time + f.final_time)
        /\ initial_pos' = ip
        /\ pending' = pending \o writes
        /\ IssueMove(t, f1, 1, ip, log \o WriteEvents(writes))

AfterRamp(t, f, ip) ==
    LET f1 == [f EXCEPT !.time_array =
                  Append([@ EXCEPT ![1] = @ + f.run_up_time * TicksPerMs],
                         f.final_time * TicksPerMs)]
        writes == UploadLoop(f1, 1)
    IN  /\ scantime' = Set(Val(scantime) + f.run_up_time + f.final_time)
        /\ initial_pos' = ip
        /\ pending' = pending \o writes
        /\ IssueMove(t, f1, 1, ip, log \o WriteEvents(writes))

\* a ramp tail that leaves the trail-off point out of the arrays
RampTailMutant(t, f, final_pos, ip) ==
    LET f1 == [f EXCEPT !.run_up_time = Max(@, f.run_up_t)]
    IN  IF f.chunk.axes[f.i + 1] # DURATION
        THEN /\ task' = [task EXCEPT ![t] = [f1 EXCEPT !.pc = "ramp_up", !.i = @ + 1]]
             /\ initial_pos' = ip
             /\ UNCHANGED <<scantime, pending, lifecycle, last, log>>
        ELSE AfterRamp(t, f1, ip)

\* lines 131-133, then the next await
RampTail(t, f, final_pos, ip) ==
    LET k == f.cs_axes[f.chunk.axes[f.i]]
        f1 == [f EXCEPT !.positions[k] = Append(@, final_pos),
                        !.velocities[k] = Append(@, 0),
                        !.run_up_time = Max(@, f.run_up_t)]
    IN  IF f.chunk.axes[f.i + 1] # DURATION
        THEN /\ task' = [task EXCEPT ![t] = [f1 EXCEPT !.pc = "ramp_up", !.i = @ + 1]]
             /\ initial_pos' = ip
             /\ UNCHANGED <<scantime, pending, lifecycle, last, log>>
        ELSE AfterRamp(t, f1, ip)

\* a ramp-up step whose trail-off point is taken from the first midpoint
RampUpStepMutant(t) ==
    LET f == task[t]
        axis == f.chunk.axes[f.i]
        k == f.cs_axes[axis]
        r == RampUpVelocityPos(0, motor[axis].acceleration_time,
                               motor[axis].max_velocity, f.velocities[k][1])
    IN  /\ f.pc = "ramp_up"
        /\ UNCHANGED <<motor, motor_pos, fly_start, status, pmac, scan_percent,
                       observer, emitted, hist>>
        /\ LET start == f.positions[k][1] - r.disp
               ip == Set(DictSet(Val(initial_pos), k, start))
               f1 == [f EXCEPT !.run_up_disp = r.disp, !.run_up_t = r.accl_time,
                               !.own_pos = DictSet(@, k, start)]
           IN  IF f.velocities[k][1] = Last(f.velocities[k])
               THEN RampTail(t, [f1 EXCEPT !.final_time = r.accl_time],
                             f.positions[k][1] + r.disp, ip)
               ELSE /\ task' = [task EXCEPT ![t] = [f1 EXCEPT !.pc = "ramp_down"]]
                    /\ initial_pos' = ip
                    /\ UNCHANGED <<scantime, pending, lifecycle, last, log>>

\* line 111 returns for axis i; lines 116-122, then RampTail or the await of
\* line 124
RampUpStep(t) ==
    LET f == task[t]
        axis == f.chunk.axes[f.i]
        k == f.cs_axes[axis]
        r == RampUpVelocityPos(0, motor[axis].acceleration_time,
                               motor[axis].max_velocity, f.velocities[k][1])
    IN  /\ f.pc = "ramp_up"
        /\ UNCHANGED <<motor, motor_pos, fly_start, status, pmac, scan_percent,
                       observer, emitted, hist>>
        /\ LET start == f.positions[k][1] - r.disp
               ip == Set(DictSet(Val(initial_pos), k, start))
               f1 == [f EXCEPT !.run_up_disp = r.disp, !.run_up_t = r.accl_time,
                               !.own_pos = DictSet(@, k, start)]
           IN  IF f.velocities[k][1] = Last(f.velocities[k])
               THEN RampTail(t, [f1 EXCEPT !.final_time = r.accl_time],
                             Last(f.positions[k]) + r.disp, ip)
               ELSE /\ task' = [task EXCEPT ![t] = [f1 EXCEPT !.pc = "ramp_down"]]
                    /\ initial_pos' = ip
                    /\ UNCHANGED <<scantime, pending, lifecycle, last, log>>

\* line 124 returns for axis i; lines 129-130, then RampTail
RampDownStep(t) ==
    LET f == task[t]
        axis == f.chunk.axes[f.i]
        k == f.cs_axes[axis]
        r == RampUpVelocityPos(Last(f.velocities[k]), motor[axis].acceleration_time,
                               motor[axis].max_velocity, 0)
    IN  /\ f.pc = "ramp_down"
        /\ UNCHANGED <<motor, motor_pos, fly_start, status, pmac, scan_percent,
                       observer, emitted, hist>>
        /\ RampTail(t, [f EXCEPT !.final_time = Max(r.accl_time, @)],
                    Last(f.positions[k]) + r.disp, initial_pos)

\* line 152 returns for axis i, the move done: line 152 for the next motor,
\* or lines 155-158 and the end of prepare
MoveStep(t) ==
    LET f == task[t]
        axis == f.chunk.axes[f.i]
        lg == Append(log, MoveEvent("move_done", axis, f.target, f.call))
    IN  /\ f.pc = "move"
        /\ motor_pos' = [motor_pos EXCEPT ![axis] = Set(f.target)]
        /\ UNCHANGED <<motor, scantime, initial_pos, status, pmac, scan_percent,
                       observer, emitted, hist>>
        /\ IF f.chunk.axes[f.i + 1] # DURATION
           THEN /\ IssueMove(t, f, f.i + 1, initial_pos, lg)
                /\ UNCHANGED <<pending, fly_start>>
           ELSE /\ pending' = pending \o FinalWrites(f)
                /\ log' = lg \o WriteEvents(FinalWrites(f))
                /\ fly_start' = TRUE
                /\ task' = [task EXCEPT ![t] = IdleTask]
                /\ lifecycle' = "Prepared"
                /\ last' = [call |-> "prepare", id |-> f.call, result |-> "ok",
                            axes |-> f.chunk.axes, chunk |-> f.chunk,
                            before |-> f.before,
                            own_scantime |-> SumSeq(f.chunk.duration)
                                             + f.run_up_time + f.final_time,
                            own_pos |-> f.own_pos]

\* line 152 raises for axis i: the move failed
MoveFail(t) ==
    /\ task[t].pc = "move"
    /\ hist.faults < MaxFaults
    /\ hist' = [hist EXCEPT !.faults = @ + 1]
    /\ PrepareRaise(t, "MoveError")
    /\ UNCHANGED <<motor, motor_pos, scantime, initial_pos, fly_start, status,
                   pending, pmac, scan_percent, observer, emitted, log>>

Resolve == \E t \in Tasks : ResolveStep(t)
RampUp == \E t \in Tasks : RampUpStep(t)
RampDown == \E t \in Tasks : RampDownStep(t)
Move == \E t \in Tasks : MoveStep(t)
MoveFailure == \E t \in Tasks : MoveFail(t)

\* ------------------------------------------------- the un-awaited field writes
RemoveAt(q, i) == SubSeq(q, 1, i - 1) \o SubSeq(q, i + 1, Len(q))

\* the controller's fields once write w has landed
Landed(w) ==
    IF w.slot = 0
    THEN [pmac EXCEPT ![w.field] = Set(w.value)]
    ELSE [pmac EXCEPT ![w.field][w.slot] = Set(w.value)]

\* which pending write may complete next: the puts are started in the order
\* they were issued and the controller serves them in that order
MayComplete(i) == i = 1

\* a pending write completes: nobody awaits its status
WriteDone ==
    \E i \in 1..Len(pending) :
        /\ MayComplete(i)
        /\ pmac' = Landed(pending[i])
        /\ pending' = RemoveAt(pending, i)
        /\ UNCHANGED <<motor, motor_pos, scantime, initial_pos, fly_start, status,
                       task, scan_percent, observer, emitted, lifecycle, last, hist, log>>

\* a pending write fails: its status holds the exception, nobody reads it
WriteFail ==
    \E i \in 1..Len(pending) :
        /\ MayComplete(i)
        /\ hist.faults < MaxFaults
        /\ hist' = [hist EXCEPT !.faults = @ + 1,
                                !.failed_writes = @ \cup {pending[i].call}]
        /\ pending' = RemoveAt(pending, i)
        /\ UNCHANGED <<motor, motor_pos, scantime, initial_pos, fly_start, status,
                       task, pmac, scan_percent, observer, emitted, lifecycle, last, log>>

\* ------------------------------------------------------------------- kickoff
\* line 162: reading self.scantime raises AttributeError before any prepare
\* has assigned it; otherwise the execute command is issued and not awaited
KickoffCall ==
    /\ Quiet
    /\ hist.kickoffs < MaxKickoffs
    /\ hist' = [hist EXCEPT !.kickoffs = @ + 1]
    /\ IF ~IsSet(scantime)
       THEN /\ last' = [call |-> "kickoff", id |-> hist.kickoffs + 1,
                        result |-> "AttributeError"]
            /\ lifecycle' = "Failed"
            /\ UNCHANGED status
       ELSE /\ status' = [state |-> "sent", timeout |-> Val(scantime) + KickoffMarginMs]
            /\ last' = [call |-> "kickoff", id |-> hist.kickoffs + 1, result |-> "ok"]
            /\ lifecycle' = "Executing"
    /\ UNCHANGED <<motor, motor_pos, scantime, initial_pos, fly_start, task,
                   pending, pmac, scan_percent, observer, emitted, log>>

\* the controller receives the execute command and starts the profile
ExecuteReceived ==
    /\ status.state = "sent"
    /\ status' = [status EXCEPT !.state = "running"]
    /\ pmac' = [pmac EXCEPT !.execute_profile = Set(1)]
    /\ UNCHANGED <<motor, motor_pos, scantime, initial_pos, fly_start, task,
                   pending, scan_percent, observer, emitted, lifecycle, last, hist, log>>

\* the profile ran to its end: the put of the execute command completes
ExecuteDone ==
    /\ status.state = "running"
    /\ scan_percent >= 100
    /\ status' = [status EXCEPT !.state = "done"]
    /\ UNCHANGED <<motor, motor_pos, scantime, initial_pos, fly_start, task,
                   pending, pmac, scan_percent, observer, emitted, lifecycle,
                   last, hist, log>>

\* the execute command fails or runs into its timeout: self.status holds the
\* exception
ExecuteFail ==
    /\ status.state \in {"sent", "running"}
    /\ hist.faults < MaxFaults
    /\ hist' = [hist EXCEPT !.faults = @ + 1]
    /\ status' = [status EXCEPT !.state = "failed"]
    /\ UNCHANGED <<motor, motor_pos, scantime, initial_pos, fly_start, task,
                   pending, pmac, scan_percent, observer, emitted, lifecycle, last, log>>

\* ------------------------------------------------------------------ complete
\* the controller publishes a new scan-percent value; observe_value queues it
\* for the running complete()
ControllerTick ==
    \E p \in Percents :
        /\ IsSet(pmac.execute_profile)
        /\ hist.samples < MaxSamples
        /\ p # scan_percent
        /\ scan_percent' = p
        /\ hist' = [hist EXCEPT !.samples = @ + 1]
        /\ observer' = IF observer.attached
                       THEN [observer EXCEPT !.queue = Append(@, p),
                                             !.seen = Append(@, p)]
                       ELSE observer
        /\ UNCHANGED <<motor, motor_pos, scantime, initial_pos, fly_start, status,
                       task, pending, pmac, emitted, lifecycle, last, log>>

\* complete() is called: observe_value subscribes and is handed the current
\* value first
CompleteCall ==
    /\ Quiet
    /\ hist.completes < MaxCompletes
    /\ hist' = [hist EXCEPT !.completes = @ + 1]
    /\ observer' = [attached |-> TRUE, queue |-> <<scan_percent>>,
                    seen |-> <<scan_percent>>]
    /\ emitted' = <<>>
    /\ UNCHANGED <<motor, motor_pos, scantime, initial_pos, fly_start, status,
                   task, pending, pmac, scan_percent, lifecycle, last, log>>

\* line 176
LoopEndsMutant(percent) == percent > 100
LoopEnds(percent) == percent >= 100

\* lines 166-177 for one queued value: the update is built (reading
\* self._fly_start) and yielded, and the loop ends on percent >= 100
CompleteStep ==
    /\ observer.attached
    /\ observer.queue # <<>>
    /\ LET percent == Head(observer.queue) IN
       IF ~fly_start
       THEN /\ observer' = [observer EXCEPT !.attached = FALSE, !.queue = <<>>]
            /\ lifecycle' = "Failed"
            /\ last' = [call |-> "complete", id |-> hist.completes,
                        result |-> "AttributeError"]
            /\ UNCHANGED emitted
       ELSE /\ emitted' = Append(emitted, percent)
            /\ IF LoopEnds(percent)
               THEN /\ observer' = [observer EXCEPT !.attached = FALSE, !.queue = <<>>]
                    /\ lifecycle' = "Completed"
                    /\ last' = [call |-> "complete", id |-> hist.completes,
                                result |-> "ok"]
               ELSE /\ observer' = [observer EXCEPT !.queue = Tail(@)]
                    /\ UNCHANGED <<lifecycle, last, log>>
    /\ UNCHANGED <<motor, motor_pos, scantime, initial_pos, fly_start, status,
                   task, pending, pmac, scan_percent, hist, log>>

\* a cancellation that also marks the executor Failed
CompleteCancelMutant ==
    /\ observer.attached
    /\ observer' = [observer EXCEPT !.attached = FALSE, !.queue = <<>>]
    /\ lifecycle' = "Failed"
    /\ last' = [call |-> "complete", id |-> hist.completes,
                result |-> "CancelledError"]
    /\ UNCHANGED <<motor, motor_pos, scantime, initial_pos, fly_start, status,
                   task, pending, pmac, scan_percent, emitted, hist, log>>

\* the caller cancels the status of complete(): the generator is closed at
\* its await
CompleteCancel ==
    /\ observer.attached
    /\ observer' = [observer EXCEPT !.attached = FALSE, !.queue = <<>>]
    /\ last' = [call |-> "complete", id |-> hist.completes,
                result |-> "CancelledError"]
    /\ UNCHANGED <<motor, motor_pos, scantime, initial_pos, fly_start, status,
                   task, pending, pmac, scan_percent, emitted, lifecycle, hist, log>>

\* ------------------------------------- _ramp_up_velocity_pos called directly
\* the velocities (units/ms) the ramps are computed for
RampVelocities == {-8, -6, -4, -2, 0, 2, 4, 6, 8}

\* the frame of _ramp_up_velocity_pos(velocity, motor, end_velocity) at the
\* await of line 50
RampFrame(velocity, m, end_velocity) ==
    [pc |-> "ramp_read_acceleration", velocity |-> velocity, motor |-> m,
     end_velocity |-> end_velocity]

\* two calls on one motor: the ramp from rest to v and the ramp from v to rest
RampInit ==
    /\ motor \in Rigs
    /\ motor_pos = [m \in Motors |-> Unset]
    /\ scantime = Unset
    /\ initial_pos = Unset
    /\ fly_start = FALSE
    /\ status = [state |-> "none", timeout |-> 0]
    /\ \E m \in Motors, v \in RampVelocities :
          task = [t \in Tasks |-> IF t = 1 THEN RampFrame(0, m, v)
                                           ELSE RampFrame(v, m, 0)]
    /\ pending = <<>>
    /\ pmac = InitPmac
    /\ scan_percent = 0
    /\ observer = NoObserver
    /\ emitted = <<>>
    /\ lifecycle = "Idle"
    /\ last = [call |-> "none", id |-> 0, result |-> "none"]
    /\ hist = InitHist
    /\ log = <<>>

\* line 50 returns, line 51 awaits
RampReadAcceleration(t) ==
    /\ task[t].pc = "ramp_read_acceleration"
    /\ task' = [task EXCEPT ![t] =
           [pc |-> "ramp_read_max_velocity", velocity |-> task[t].velocity,
            motor |-> task[t].motor, end_velocity |-> task[t].end_velocity,
            max_velocity_acceleration_time |-> motor[task[t].motor].acceleration_time]]
    /\ UNCHANGED <<motor, motor_pos, scantime, initial_pos, fly_start, status,
                   pending, pmac, scan_percent, observer, emitted, lifecycle, last,
                   hist, log>>

\* line 51 returns, lines 52-55
RampReturn(t) ==
    /\ task[t].pc = "ramp_read_max_velocity"
    /\ motor[task[t].motor].max_velocity # 0
    /\ task' = [task EXCEPT ![t] =
           [pc |-> "ramp_returned", velocity |-> task[t].velocity,
            motor |-> task[t].motor, end_velocity |-> task[t].end_velocity,
            result |-> RampUpVelocityPos(task[t].velocity,
                                         task[t].max_velocity_acceleration_time,
                                         motor[task[t].motor].max_velocity,
                                         task[t].end_velocity)]]
    /\ UNCHANGED <<motor, motor_pos, scantime, initial_pos, fly_start, status,
                   pending, pmac, scan_percent, observer, emitted, lifecycle, last,
                   hist, log>>

RampAcceleration == \E t \in Tasks : RampReadAcceleration(t)
RampResult == \E t \in Tasks : RampReturn(t)

\* ------------------------------------------------------------ specifications
\* prepare and kickoff with the controller answering the field writes and
\* the motors their moves: up to MaxPrepares requests, one after the other
Next ==
    \/ PrepareCall
    \/ Resolve
    \/ RampUp
    \/ RampDown
    \/ Move
    \/ MoveFailure
    \/ WriteDone
    \/ WriteFail
    \/ KickoffCall

Spec == Init /\ [][Next]_vars

\* the first request of a device
FirstPrepareCall == hist.prepares = 0 /\ PrepareCall

\* one whole lifecycle: the first prepare with the controller taking every
\* field write, kickoff, the controller running the profile and publishing
\* scan-percent, complete observed and cancelled
LifeNext ==
    \/ FirstPrepareCall
    \/ Resolve
    \/ RampUp
    \/ RampDown
    \/ Move
    \/ MoveFailure
    \/ WriteDone
    \/ KickoffCall
    \/ ExecuteReceived
    \/ ExecuteDone
    \/ ExecuteFail
    \/ ControllerTick
    \/ CompleteCall
    \/ CompleteStep
    \/ CompleteCancel

LifeSpec == Init /\ [][LifeNext]_vars

\* one prepare after the other, every write and move succeeding
RepeatNext ==
    \/ PrepareCall
    \/ PrepareAgain
    \/ Resolve
    \/ RampUp
    \/ RampDown
    \/ Move
    \/ WriteDone

RepeatSpec == Init /\ [][RepeatNext]_vars

\* the ramp computation on its own
RampNext ==
    \/ RampAcceleration
    \/ RampResult

\* two callers of prepare that do not wait for each other
ConcNext ==
    \/ PrepareCall
    \/ PrepareCallConcurrent
    \/ Resolve
    \/ RampUp
    \/ RampDown
    \/ Move
    \/ MoveFailure
    \/ WriteDone
    \/ WriteFail

ConcSpec == Init /\ [][ConcNext]_vars

\* the event loop runs complete() whenever a value is queued for it
LiveSpec == Init /\ [][LifeNext]_vars /\ WF_vars(CompleteStep)

\* ---------------------------------------------------------------- properties
KickoffTaken == hist'.kickoffs # hist.kickoffs
KickoffRejected == status' = status /\ last'.result # "ok"
KickoffIssued ==
    /\ status'.state = "sent"
    /\ status'.timeout = Val(scantime) + KickoffMarginMs
    /\ lifecycle' = "Executing"

\* C1: kickoff is valid only from Prepared: from any other state it fails and
\* issues no execute command, from Prepared it issues the execute command
\* and the lifecycle becomes Executing.
C1_KickoffOnlyFromPrepared ==
    [][KickoffTaken =>
          IF lifecycle = "Prepared" THEN KickoffIssued ELSE KickoffRejected]_vars

UploadFields == {"use_axis", "positions", "velocities", "time_array"}
BuildFields == {"profile_calc_vel", "build_profile"}
IsWrite(e, fields) == e.kind = "write" /\ e.field \in fields
IsMove(e, kinds) == e.kind \in kinds
MotorsOf(axes) == {axes[j] : j \in 1..Len(axes)} \ {DURATION}
AxesOfCall(c) ==
    UNION {MotorsOf(task[t].chunk.axes) : t \in {u \in Tasks : task[u].pc # "idle"
                                                             /\ task[u].call = c}}
    \cup (IF last.call = "prepare" /\ last.id = c THEN MotorsOf(last.axes) ELSE {})

\* C2 as claimed: no profile array or axis-enable flag is written before the
\* last move to start has completed.
C2_UploadsAfterMoves ==
    \A j \in 1..Len(log), k \in 1..Len(log) :
        (IsWrite(log[j], UploadFields) /\ IsMove(log[k], {"move_issued", "move_done"})
         /\ log[j].call = log[k].call) => k < j

\* C2 as amended: the profile arrays and axis-enable flags are written before
\* the first move to start is issued; the moves are issued one after the
\* other, each awaited; and the mode flag and the build trigger are written
\* only when the move of every axis of the request has completed.
C2_MovesBetweenUploadsAndBuild ==
    /\ \A j \in 1..Len(log) :
          IsWrite(log[j], UploadFields) =>
              \A k \in 1..Len(log) :
                  (IsMove(log[k], {"move_issued", "move_done"})
                   /\ log[j].call = log[k].call) => j < k
    /\ \A j \in 1..Len(log) :
          IsWrite(log[j], BuildFields) =>
              /\ \A k \in 1..Len(log) :
                    (IsMove(log[k], {"move_issued", "move_done"})
                     /\ log[j].call = log[k].call) => k < j
              /\ \A m \in AxesOfCall(log[j].call) :
                    \E k \in 1..(j - 1) : IsMove(log[k], {"move_done"})
                                          /\ log[k].axis = m /\ log[k].call = log[j].call

\* a two-axis prepare has moved both axes and written the build trigger
C2_Witness ==
    /\ lifecycle = "Prepared"
    /\ Cardinality(MotorsOf(last.axes)) = 2
    /\ \E j \in 1..Len(log) : IsWrite(log[j], {"build_profile"})
    /\ \E j \in 1..Len(log) : IsWrite(log[j], UploadFields)

\* the ports the motors of a request resolve to
\* get_cs_info of every output link an installation has
CsInfoOfLink ==
    [l \in {r[m].output_link : r \in Rigs, m \in Motors} |-> ParseCsInfo(l)]
PortsOf(axes) ==
    {CsInfoOfLink[motor[m].output_link].cs_port : m \in MotorsOf(axes)}
SpansPorts(axes) ==
    /\ Cardinality(MotorsOf(axes)) > 1
    /\ \A m \in MotorsOf(axes) : CsInfoOfLink[motor[m].output_link].error = "none"
    /\ Cardinality(PortsOf(axes)) > 1
IssuedBy(c) ==
    \/ \E j \in 1..Len(log) : log[j].call = c
    \/ \E j \in 1..Len(pending) : pending[j].call = c

\* C3: a request whose axes resolve to more than one port fails in prepare on
\* the assertion "Motors in more than one CS" and has written no controller
\* field and moved no axis.
C3_SpanningRequestFails ==
    /\ \A t \in Tasks :
          (task[t].pc # "idle" /\ SpansPorts(task[t].chunk.axes)) =>
              /\ task[t].pc = "resolve"
              /\ ~IssuedBy(task[t].call)
    /\ (last.call = "prepare" /\ SpansPorts(last.axes)) =>
          /\ last.result = "AssertionError: Motors in more than one CS"
          /\ lifecycle = "Failed"
          /\ ~IssuedBy(last.id)

C3_Witness ==
    /\ last.call = "prepare"
    /\ SpansPorts(last.axes)
    /\ last.result = "AssertionError: Motors in more than one CS"

PrepareFailedNow == last' # last /\ last'.call = "prepare" /\ last'.result # "ok"

\* C4: a prepare that raises leaves the executor in Failed with none of its
\* partly computed state (scantime, initial_pos) on the instance, and the
\* kickoff that follows is rejected.
C4_FailedPrepareIsAtomic ==
    [][/\ PrepareFailedNow =>
            /\ lifecycle' = "Failed"
            /\ scantime' \in {Unset, last'.before.scantime}
            /\ initial_pos' \in {Unset, last'.before.initial_pos}
       /\ (KickoffTaken /\ lifecycle = "Failed" /\ last.call = "prepare") =>
            KickoffRejected]_vars

InFlight == {t \in Tasks : task[t].pc # "idle"}

\* C5: prepare calls on one device never overlap, so that the instance state
\* a successful prepare leaves (scantime, initial_pos) is that of its own
\* request alone.
C5_OnePrepareInFlight ==
    /\ Cardinality(InFlight) <= 1
    /\ (last.call = "prepare" /\ last.result = "ok" /\ InFlight = {}) =>
          /\ scantime = Set(last.own_scantime)
          /\ initial_pos = Set(last.own_pos)

NonDecreasing(q) == \A i \in 1..Len(q), j \in 1..Len(q) : i < j => q[i] <= q[j]

\* C6: the percent values one complete() call emits never decrease.
C6_EmittedNonDecreasing == NonDecreasing(emitted)

CompleteReturned == last.call = "complete" /\ last.result = "ok"
Below100(q) == \A i \in 1..Len(q) : q[i] < 100

\* C7: complete() emits one update per sample observe_value hands it, in
\* order, up to and including the first sample >= 100, then returns; and a
\* running complete() that has been handed a sample >= 100 ends.
C7_OneUpdatePerSample ==
    /\ (observer.attached /\ fly_start) =>
          /\ emitted \o observer.queue = observer.seen
          /\ Below100(emitted)
    /\ (CompleteReturned /\ ~observer.attached) =>
          /\ emitted # <<>>
          /\ Last(emitted) >= 100
          /\ Below100(SubSeq(emitted, 1, Len(emitted) - 1))
          /\ emitted = SubSeq(observer.seen, 1, Len(emitted))

C7_CompleteTerminates ==
    /\ []C7_OneUpdatePerSample
    /\ (observer.attached /\ \E i \in 1..Len(observer.queue) : observer.queue[i] >= 100)
          ~> ~observer.attached

\* a complete() has emitted 0 and 40 and returned on 100
C7_Witness ==
    /\ CompleteReturned
    /\ ~observer.attached
    /\ emitted = <<0, 40, 100>>

CancelTaken == observer.attached /\ last' # last /\ last'.result = "CancelledError"
AttachTaken == hist'.completes # hist.completes

\* C8: cancelling complete() emits nothing further, writes nothing to the
\* controller and leaves the lifecycle and the running profile as they are;
\* the next complete() starts from the controller's current percent.
C8_CancelOnlyStopsObserving ==
    [][/\ CancelTaken =>
            /\ emitted' = emitted
            /\ pending' = pending /\ pmac' = pmac /\ status' = status
            /\ scan_percent' = scan_percent
            /\ lifecycle' = lifecycle
            /\ ~observer'.attached
       /\ (~observer.attached /\ ~observer'.attached) => emitted' = emitted
       /\ AttachTaken =>
            /\ observer'.attached
            /\ observer'.queue = <<scan_percent>>
            /\ emitted' = <<>>
            /\ lifecycle' = lifecycle]_vars

\* a second complete(), attached after the first was cancelled at 40% while
\* Executing, has emitted 40 first
C8_Witness ==
    /\ hist.completes = 2
    /\ observer.attached
    /\ lifecycle = "Executing"
    /\ emitted = <<40>>
    /\ last.call = "complete" /\ last.result = "CancelledError"

\* C9: once the execute command has failed, complete() reports no further
\* progress and does not return normally: the failure reaches the caller
\* and the lifecycle is Failed.
C9_ExecuteFailureSurfaces ==
    [][(status.state = "failed" /\ observer.attached) =>
          /\ emitted' = emitted
          /\ lifecycle' \in {lifecycle, "Failed"}]_vars

PrepareReturned == last.call = "prepare" /\ last.result = "ok" /\ lifecycle = "Prepared"

\* C10: a prepare that returned normally has had every one of its field
\* writes completed successfully (a failed write makes prepare raise).
C10_SuccessMeansAllWritten ==
    PrepareReturned =>
        /\ last.id \notin hist.failed_writes
        /\ \A j \in 1..Len(pending) : pending[j].call # last.id

\* the requests whose writes and moves are in log or whose result is in last
ChunksOfCall(c) ==
    {task[t].chunk : t \in {u \in Tasks : task[u].pc # "idle" /\ task[u].call = c}}
    \cup (IF last.call = "prepare" /\ last.id = c THEN {last.chunk} ELSE {})

\* C11: the tick-count array and every per-axis position and velocity array
\* that prepare uploads have length num_positions + 1, the value it writes
\* to points_to_build.
C11_ArraysOneLongerThanScan ==
    \A j \in 1..Len(log) :
        IsWrite(log[j], {"positions", "velocities", "time_array", "points_to_build"}) =>
            \A c \in ChunksOfCall(log[j].call) :
                /\ IsWrite(log[j], {"positions", "velocities", "time_array"}) =>
                       Len(log[j].value) = c.size + 1
                /\ IsWrite(log[j], {"points_to_build"}) => log[j].value = c.size + 1

\* a two-frame, two-axis prepare has succeeded and uploaded arrays of three
C11_Witness ==
    /\ lifecycle = "Prepared"
    /\ last.chunk.size = 2
    /\ Cardinality(MotorsOf(last.axes)) = 2
    /\ \E j \in 1..Len(log) : IsWrite(log[j], {"time_array"}) /\ Len(log[j].value) = 3
    /\ \E j \in 1..Len(log) : IsWrite(log[j], {"positions"}) /\ Len(log[j].value) = 3
    /\ \E j \in 1..Len(log) : IsWrite(log[j], {"velocities"}) /\ Len(log[j].value) = 3

\* the velocity of motor m in frame i of chunk c (lines 97-100)
FrameVelocity(c, m, i) == (c.upper[m][i] - c.lower[m][i]) \div c.duration[i]
\* the ramp of motor m from rest to its first velocity and from its last
\* velocity to rest, by _ramp_up_velocity_pos
RampUpOf(c, m) ==
    RampUpVelocityPos(0, motor[m].acceleration_time, motor[m].max_velocity,
                      FrameVelocity(c, m, 1))
RampDownOf(c, m) ==
    RampUpVelocityPos(FrameVelocity(c, m, c.size), motor[m].acceleration_time,
                      motor[m].max_velocity, 0)
MaxOf(S) == CHOOSE x \in S : \A y \in S : y <= x

PrepareSucceeded == last.call = "prepare" /\ last.result = "ok" /\ InFlight = {}

C13_TimeoutFromSuccessfulPrepare ==
    [][(KickoffTaken /\ last.call = "prepare") =>
          IF last.result = "ok"
          THEN /\ status'.state = "sent"
               /\ status'.timeout = last.own_scantime + KickoffMarginMs
          ELSE status' = status]_vars

ValidRampSettings(m) == motor[m].max_velocity # 0 /\ motor[m].acceleration_time > 0

\* C14: no ramp is returned for a motor whose max_velocity is 0 or whose
\* acceleration time is zero or negative, and a prepare over such a motor
\* does not reach Prepared.
C14_InvalidRampRejected ==
    /\ \A t \in Tasks :
          /\ task[t].pc = "ramp_down" => ValidRampSettings(task[t].chunk.axes[task[t].i])
          /\ task[t].pc = "move" =>
                \A m \in MotorsOf(task[t].chunk.axes) : ValidRampSettings(m)
    /\ (last.call = "prepare" /\ last.result = "ok") =>
          \A m \in MotorsOf(last.axes) : ValidRampSettings(m)

RampSpec == RampInit /\ [][RampNext]_vars

RampsReturned == \A t \in Tasks : task[t].pc = "ramp_returned"

\* C15: on a motor with valid settings the ramp from rest to v and the ramp
\* from v to rest have the same duration and the same displacement, the
\* duration being accel_time * |v| / max_velocity and the displacement
\* 0.5 * v * duration.
C15_RampSymmetry ==
    (RampsReturned /\ ValidRampSettings(task[1].motor)) =>
        LET up == task[1].result
            down == task[2].result
            m == task[1].motor
            v == task[1].end_velocity
        IN  /\ up.accl_time = down.accl_time
            /\ up.disp = down.disp
            /\ up.accl_time * motor[m].max_velocity = motor[m].acceleration_time * Abs(v)
            /\ 2 * up.disp = v * up.accl_time

\* both ramps of a negative velocity have returned, with a duration above 0
C15_Witness ==
    /\ RampsReturned
    /\ ValidRampSettings(task[1].motor)
    /\ task[1].end_velocity < 0
    /\ task[2].velocity = task[1].end_velocity
    /\ task[2].result.accl_time > 0
    /\ task[2].result.disp < 0

SteadySingleAxis(c) ==
    /\ Cardinality(MotorsOf(c.axes)) = 1
    /\ \A m \in MotorsOf(c.axes) :
          /\ ValidRampSettings(m)
          /\ FrameVelocity(c, m, 1) = FrameVelocity(c, m, c.size)

\* C16: for a valid one-axis request whose first and last velocities are
\* equal the ramp-down is the ramp-up: the position appended is the last
\* midpoint + ramp-up displacement, the tick count appended is the ramp-up
\* duration, and the scan time is the frame durations + 2 * ramp-up duration.
C16_SteadyScanReusesRampUp ==
    /\ \A j \in 1..Len(log) :
          IsWrite(log[j], {"positions", "velocities", "time_array"}) =>
          \A c \in ChunksOfCall(log[j].call) :
              SteadySingleAxis(c) =>
                  \A m \in MotorsOf(c.axes) :
                      /\ IsWrite(log[j], {"positions"}) =>
                            Last(log[j].value) = c.midpoints[m][c.size] + RampUpOf(c, m).disp
                      /\ IsWrite(log[j], {"velocities"}) => Last(log[j].value) = 0
                      /\ IsWrite(log[j], {"time_array"}) =>
                            Last(log[j].value) = RampUpOf(c, m).accl_time * TicksPerMs
    /\ (PrepareSucceeded /\ SteadySingleAxis(last.chunk)) =>
          \A m \in MotorsOf(last.axes) :
              scantime = Set(SumSeq(last.chunk.duration) + 2 * RampUpOf(last.chunk, m).accl_time)

\* a two-frame scan of one motor at one velocity has been prepared: midpoints
\* 2 and 6, ramp of 2 ms over 2 units, trail-off point 8
C16_Witness ==
    /\ PrepareSucceeded
    /\ SteadySingleAxis(last.chunk)
    /\ last.chunk.size = 2
    /\ scantime = Set(8)
    /\ \E j \in 1..Len(log) : IsWrite(log[j], {"positions"}) /\ log[j].value = <<2, 6, 8>>
    /\ \E j \in 1..Len(log) :
          IsWrite(log[j], {"time_array"}) /\ log[j].value = <<4000, 2000, 2000>>

\* the controller slot of motor m: its 1-based INDEX
SlotOf(m) == ParseCsInfo(motor[m].output_link).cs_index + 1

Descriptors ==
    { [link |-> Link(PortCS1, <<"1">>), port |-> PortCS1, index |-> 1, in_cs |-> TRUE],
      [link |-> Link(PortCS1, <<" ", "2">>), port |-> PortCS1, index |-> 2, in_cs |-> TRUE],
      [link |-> Link(PortCS1, <<"2">>), port |-> PortCS1, index |-> 2, in_cs |-> TRUE],
      [link |-> Link(PortCS2, <<"1">>), port |-> PortCS2, index |-> 1, in_cs |-> TRUE],
      [link |-> Link(PortCS2, <<"3">>), port |-> PortCS2, index |-> 3, in_cs |-> TRUE],
      [link |-> Link(PortBrick, <<"3">>), port |-> PortBrick, index |-> 3, in_cs |-> FALSE] }
DescriptorOf(m) == CHOOSE d \in Descriptors : d.link = motor[m].output_link

\* C18: get_cs_info on "@asyn(PORT,INDEX)" returns (PORT, INDEX - 1) when
\* PORT contains "CS" and fails when it does not; the slot prepare enables
\* and writes for the motor is INDEX.
C18_PortAndZeroBasedIndex ==
    /\ \A m \in Motors : \E d \in Descriptors : d.link = motor[m].output_link
    /\ \A t \in Tasks :
          task[t].pc \in {"resolve", "ramp_up", "ramp_down", "move"} =>
              \A m \in DOMAIN task[t].cs_axes :
                  /\ DescriptorOf(m).in_cs
                  /\ task[t].cs_axes[m] = DescriptorOf(m).index - 1
                  /\ DescriptorOf(m).port \in task[t].cs_ports
    /\ (last.call = "prepare" /\ ~DescriptorOf(last.axes[1]).in_cs) =>
          last.result = "AssertionError: not in a CS" /\ ~IssuedBy(last.id)
    /\ (last.call = "prepare" /\ last.result = "AssertionError: not in a CS") =>
          \E m \in MotorsOf(last.axes) : ~DescriptorOf(m).in_cs
    /\ \A j \in 1..Len(log) :
          IsWrite(log[j], {"use_axis", "positions", "velocities"}) =>
              \A c \in ChunksOfCall(log[j].call) :
                  \E m \in MotorsOf(c.axes) : log[j].slot = DescriptorOf(m).index
    /\ PrepareSucceeded =>
          \A m \in MotorsOf(last.axes) :
              \E j \in 1..Len(log) :
                  /\ IsWrite(log[j], {"use_axis"})
                  /\ log[j].slot = DescriptorOf(m).index
                  /\ log[j].value = TRUE

\* "@asyn(BRICK1CS2,3)" has been resolved to ("BRICK1CS2", 2) and slot 3
\* enabled for the motor
C18_Witness ==
    /\ motor["mB"].output_link = Link(PortCS2, <<"3">>)
    /\ \E t \in Tasks :
          /\ task[t].pc = "move"
          /\ "mB" \in DOMAIN task[t].cs_axes
          /\ task[t].cs_axes["mB"] = 2
          /\ task[t].cs_port = PortCS2
    /\ \E j \in 1..Len(log) : IsWrite(log[j], {"use_axis"}) /\ log[j].slot = 3

\* the writes the build trigger relies on
ProfileFields ==
    {"profile_cs_name", "points_to_build", "use_axis", "positions", "velocities",
     "time_array", "profile_calc_vel"}
ProfileWritePending(c) ==
    \E j \in 1..Len(pending) : pending[j].call = c /\ pending[j].field \in ProfileFields

\* C19: the build trigger is on its way, or prepare has reported success,
\* only when none of the profile writes of that prepare is still pending.
C19_BuildAfterWritesLanded ==
    /\ \A j \in 1..Len(pending) :
          pending[j].field = "build_profile" => ~ProfileWritePending(pending[j].call)
    /\ (last.call = "prepare" /\ last.result = "ok") => ~ProfileWritePending(last.id)

\* where motor m starts the scan of chunk c from: the first midpoint less the
\* displacement of the ramp from rest to the first velocity
RampUpStart(c, m) == c.midpoints[m][1] - RampUpOf(c, m).disp

\* C20: when the build trigger is issued every axis of the request has
\* completed a move to its first midpoint less its ramp-up displacement, and
\* no move to start is pending.
C20_BuildAfterMovesToRampUpStart ==
    \A j \in 1..Len(log) :
        IsWrite(log[j], {"build_profile"}) =>
            /\ \A c \in ChunksOfCall(log[j].call) :
                  \A m \in MotorsOf(c.axes) :
                      \E k \in 1..(j - 1) :
                          /\ IsMove(log[k], {"move_done"})
                          /\ log[k].call = log[j].call
                          /\ log[k].axis = m
                          /\ log[k].target = RampUpStart(c, m)
            /\ \A k \in 1..(j - 1) :
                  (IsMove(log[k], {"move_issued"}) /\ log[k].call = log[j].call) =>
                      \E d \in (k + 1)..(j - 1) :
                          /\ IsMove(log[d], {"move_done"})
                          /\ log[d].call = log[k].call
                          /\ log[d].axis = log[k].axis
                          /\ log[d].target = log[k].target

\* the build trigger is out after mA was moved to 2 - 2 = 0 and mB to 2 - 1 = 1
C20_Witness ==
    /\ PrepareSucceeded
    /\ Cardinality(MotorsOf(last.axes)) = 2
    /\ motor_pos = [m \in Motors |-> IF m = "mA" THEN Set(0) ELSE Set(1)]
    /\ \E j \in 1..Len(log) : IsWrite(log[j], {"build_profile"})
    /\ \E j \in 1..Len(log) :
          IsMove(log[j], {"move_done"}) /\ log[j].axis = "mB" /\ log[j].target = 1

====
